---- MODULE Spec2Model ----
(***************************************************************************)
(* Model of the YouTube comment analytics repository:                      *)
(*   src/app.py              the Streamlit dashboard (one script, re-run   *)
(*                           top to bottom on every user interaction)      *)
(*   src/generate_charts.py  the batch chart renderer (main and 5 plots)   *)
(* Tables are sequences of rows; absent values are NoValue (labels) and    *)
(* NaT (timestamps and dates).  Percentages are exact fractions num/den.   *)
(***************************************************************************)
EXTENDS Integers, Sequences, FiniteSets, TLC

\* ---------------------------------------------------------------- bounds
MaxRows == 2
MaxReads == 2

\* ------------------------------------------------------------ value sets
NoValue == "NaN"
NaT == 0
TopicOrder == <<"A", "B">>
SentimentOrder == <<"NEGATIVE", "NEUTRAL", "POSITIVE">>
DateOrder == <<1, 2>>

Range(s) == {s[i] : i \in DOMAIN s}
Topics == Range(TopicOrder)
Sentiments == Range(SentimentOrder)
Dates == Range(DateOrder)
SeqsUpTo(S, n) == UNION {[1..k -> S] : k \in 0..n}

RECURSIVE SetMin(_)
SetMin(S) ==
    LET x == CHOOSE y \in S : TRUE
    IN  IF S = {x} THEN x
        ELSE LET m == SetMin(S \ {x}) IN IF x < m THEN x ELSE m

RECURSIVE SetMax(_)
SetMax(S) ==
    LET x == CHOOSE y \in S : TRUE
    IN  IF S = {x} THEN x
        ELSE LET m == SetMax(S \ {x}) IN IF x > m THEN x ELSE m

\* ------------------------------------------------------------- CSV files
OptionalColumns == {"published_at", "topic_label", "sentiment_label"}
SchemaColumns ==
    <<"author", "clean_text", "published_at", "likes",
      "topic_label", "sentiment_label", "sentiment_score">>

\* Two families of rows: one varies the topic and the date with one sentiment
\* label, the other varies the sentiment and the date within one topic.
FilterRows ==
    [topic_label : Topics \cup {NoValue},
     sentiment_label : {"POSITIVE", NoValue},
     published_at : Dates \cup {NaT}]

BatchRows ==
    [topic_label : Topics \cup {NoValue},
     sentiment_label : Sentiments \cup {NoValue},
     published_at : Dates \cup {NaT}]

MetricRows ==
    [topic_label : {"A"},
     sentiment_label : Sentiments \cup {NoValue},
     published_at : {1, NaT}]

\* A column that is not in the file has no value in any row.
WellFormed(f) ==
    \A i \in DOMAIN f.rows :
        /\ "published_at" \notin f.cols => f.rows[i].published_at = NaT
        /\ "topic_label" \notin f.cols => f.rows[i].topic_label = NoValue
        /\ "sentiment_label" \notin f.cols => f.rows[i].sentiment_label = NoValue

FilesOver(colsets, rowset, n) ==
    {f \in [exists : {TRUE}, cols : colsets, rows : SeqsUpTo(rowset, n)] :
        WellFormed(f)}

MissingFile == [exists |-> FALSE, cols |-> {}, rows |-> <<>>]

FileColumns(f) ==
    SelectSeq(SchemaColumns, LAMBDA c : c \notin OptionalColumns \/ c \in f.cols)

\* ------------------------------------------------------------- load_data
\* pd.to_datetime(errors="coerce", utc=True) then .dt.date: the calendar day
\* of a parsed timestamp, NaT where the value is missing or unparseable.
ToDate(ts) == IF ts = NaT THEN NaT ELSE ts

load_data(f) ==
    [columns |-> FileColumns(f) \o <<"date">>,
     rows |-> [i \in DOMAIN f.rows |->
                 [topic_label |-> f.rows[i].topic_label,
                  sentiment_label |-> f.rows[i].sentiment_label,
                  published_at |-> f.rows[i].published_at,
                  date |-> IF "published_at" \in f.cols
                           THEN ToDate(f.rows[i].published_at)
                           ELSE NaT]]]

HasColumn(df, c) == c \in Range(df.columns)

\* ------------------------------------------------------- pandas helpers
Absent(col) == IF col \in {"date", "published_at"} THEN NaT ELSE NoValue
notna_any(rows, col) == \E i \in DOMAIN rows : rows[i][col] # Absent(col)
isna_all(rows, col) == \A i \in DOMAIN rows : rows[i][col] = Absent(col)
Present(rows, col) == {rows[i][col] : i \in DOMAIN rows} \ {Absent(col)}
SortedUnique(order, S) == SelectSeq(order, LAMBDA v : v \in S)

\* value_counts(): one entry per non-absent value, absent values dropped.
value_counts(rows, col) ==
    [v \in Present(rows, col) |-> Len(SelectSeq(rows, LAMBDA r : r[col] = v))]

\* groupby(["date", "sentiment_label"]).size().unstack(fill_value=0): groups
\* with an absent key are dropped, the index comes out sorted.
GroupedRows(rows) ==
    SelectSeq(rows, LAMBDA r : r.date # NaT /\ r.sentiment_label # NoValue)

sent_time_of(rows) ==
    LET g == GroupedRows(rows)
        ds == Present(g, "date")
        ss == Present(g, "sentiment_label")
    IN  [index |-> SortedUnique(DateOrder, ds),
         columns |-> SortedUnique(SentimentOrder, ss),
         cells |-> [d \in ds |-> [s \in ss |->
                      Len(SelectSeq(g, LAMBDA r : r.date = d /\ r.sentiment_label = s))]]]

\* ===================================================== src/app.py script
NoWidget == <<NaT, NaT, NaT>>
PreviewCap == 200

topic_options(df) == <<"All">> \o SortedUnique(TopicOrder, Present(df.rows, "topic_label"))
sentiment_options(df) ==
    <<"All">> \o SortedUnique(SentimentOrder, Present(df.rows, "sentiment_label"))

DateWidgetShown(df) == HasColumn(df, "date") /\ notna_any(df.rows, "date")
\* df["date"].min() / .max() on the object column of dates.  When dates and
\* absent values are mixed the reduction either skips the absent values
\* (skipna, the documented behaviour) or raises TypeError comparing a date
\* with the fill value for the absent ones, depending on the pandas build.
MinMaxOutcomes(df) ==
    IF \E i \in DOMAIN df.rows : df.rows[i].date = NaT
    THEN {"value", "TypeError"}
    ELSE {"value"}

min_date(df) == SetMin(Present(df.rows, "date"))
max_date(df) == SetMax(Present(df.rows, "date"))
DefaultDateInput_MinOnly(df) ==
    IF DateWidgetShown(df) THEN <<min_date(df), min_date(df)>> ELSE NoWidget

DefaultDateInput(df) ==
    IF DateWidgetShown(df) THEN <<min_date(df), max_date(df)>> ELSE NoWidget

\* What st.sidebar.date_input returns for a range value: a tuple of two
\* dates, or of one date while the user has picked the start of a new range
\* and not yet its end.
DateInputValues(df) ==
    IF DateWidgetShown(df)
    THEN {<<s>> : s \in Dates}
         \cup {p \in Dates \X Dates : p[1] <= p[2]}
    ELSE {NoWidget}

Truthy(d) == d # NaT

MatchTopic_KeepAbsent(rows, chosen_topic) ==
    IF chosen_topic # "All"
    THEN SelectSeq(rows, LAMBDA r : r.topic_label \in {chosen_topic, NoValue})
    ELSE rows

MatchTopic(rows, chosen_topic) ==
    IF chosen_topic # "All"
    THEN SelectSeq(rows, LAMBDA r : r.topic_label = chosen_topic)
    ELSE rows

MatchSentiment(rows, chosen_sentiment) ==
    IF chosen_sentiment # "All"
    THEN SelectSeq(rows, LAMBDA r : r.sentiment_label = chosen_sentiment)
    ELSE rows

MatchDate_Exclusive(df, rows, start_date, end_date) ==
    IF Truthy(start_date) /\ Truthy(end_date) /\ HasColumn(df, "date")
    THEN SelectSeq(rows, LAMBDA r :
            r.date # NaT /\ r.date >= start_date /\ r.date < end_date)
    ELSE rows

\* Comparisons of an absent date with a date are False.
MatchDate(df, rows, start_date, end_date) ==
    IF Truthy(start_date) /\ Truthy(end_date) /\ HasColumn(df, "date")
    THEN SelectSeq(rows, LAMBDA r :
            r.date # NaT /\ r.date >= start_date /\ r.date <= end_date)
    ELSE rows

ApplyFilters(df, chosen_topic, chosen_sentiment, start_date, end_date) ==
    MatchDate(df,
              MatchSentiment(MatchTopic(df.rows, chosen_topic), chosen_sentiment),
              start_date, end_date)

Pct_OfLabelled(rows, label) ==
    IF Len(rows) > 0
    THEN [num |-> Len(SelectSeq(rows, LAMBDA r : r.sentiment_label = label)) * 100,
          den |-> IF notna_any(rows, "sentiment_label")
                  THEN Len(SelectSeq(rows, LAMBDA r : r.sentiment_label # NoValue))
                  ELSE 1]
    ELSE [num |-> 0, den |-> 1]

Pct(rows, label) ==
    IF Len(rows) > 0
    THEN [num |-> Len(SelectSeq(rows, LAMBDA r : r.sentiment_label = label)) * 100,
          den |-> Len(rows)]
    ELSE [num |-> 0, den |-> 1]

NoData == "no data"
NotRendered == "not rendered"

TopicChart(df, rows) ==
    IF HasColumn(df, "topic_label") /\ Len(rows) > 0
    THEN [kind |-> "bar_chart", data |-> value_counts(rows, "topic_label")]
    ELSE [kind |-> NoData, data |-> <<>>]

SentimentChart(df, rows) ==
    IF HasColumn(df, "sentiment_label") /\ Len(rows) > 0
    THEN [kind |-> "bar_chart", data |-> value_counts(rows, "sentiment_label")]
    ELSE [kind |-> NoData, data |-> <<>>]

TimeChart(df, rows) ==
    IF HasColumn(df, "date") /\ notna_any(rows, "date")
    THEN LET st == sent_time_of(rows)
         IN  IF st.index # <<>>
             THEN [kind |-> "line_chart", data |-> st]
             ELSE [kind |-> NoData, data |-> st]
    ELSE [kind |-> NotRendered, data |-> <<>>]

show_cols(df) == SelectSeq(SchemaColumns, LAMBDA c : HasColumn(df, c))
head(rows, n) == SubSeq(rows, 1, IF Len(rows) < n THEN Len(rows) ELSE n)

\* filtered.to_csv(index=False): a header of the table's columns, then the
\* filtered rows.
to_csv_unfiltered(df, filtered) == [header |-> df.columns, rows |-> df.rows]
to_csv(df, filtered) == [header |-> df.columns, rows |-> filtered]

\* One execution of the script from the sidebar down, on table df, with the
\* values the three controls return.
Script(df, chosen_topic, chosen_sentiment, date_input, minmax) ==
    IF DateWidgetShown(df) /\ minmax = "TypeError"
    THEN [status |-> "TypeError",
          chosen_topic |-> chosen_topic, chosen_sentiment |-> chosen_sentiment,
          date_input |-> date_input]
    ELSE IF DateWidgetShown(df) /\ Len(date_input) # 2
    THEN [status |-> "ValueError",
          chosen_topic |-> chosen_topic, chosen_sentiment |-> chosen_sentiment,
          date_input |-> date_input]
    ELSE
      LET start_date == IF DateWidgetShown(df) THEN date_input[1] ELSE NaT
          end_date == IF DateWidgetShown(df) THEN date_input[2] ELSE NaT
          filtered == ApplyFilters(df, chosen_topic, chosen_sentiment,
                                   start_date, end_date)
      IN [status |-> "ok",
          chosen_topic |-> chosen_topic, chosen_sentiment |-> chosen_sentiment,
          date_input |-> date_input,
          start_date |-> start_date, end_date |-> end_date,
          filtered |-> filtered,
          total |-> Len(filtered),
          pos_pct |-> Pct(filtered, "POSITIVE"),
          neg_pct |-> Pct(filtered, "NEGATIVE"),
          topic_chart |-> TopicChart(df, filtered),
          sentiment_chart |-> SentimentChart(df, filtered),
          time_chart |-> TimeChart(df, filtered),
          preview |-> [columns |-> show_cols(df), rows |-> head(filtered, PreviewCap)],
          csv |-> to_csv(df, filtered)]

\* ========================================== src/generate_charts.py plots
ChartOrder ==
    <<"overall_sentiment", "topic_distribution", "sentiment_by_topic",
      "comments_per_day", "sentiment_over_time">>
Pending == "pending"
Skipped == "skipped"
Saved == "saved"
Raised == "raised"

\* counts.plot(kind="bar") on a Series: the source does not guard the empty
\* Series, and what the plotting library does with it is the library's: it
\* raises, or it draws an empty chart that is then saved.
BarPlotOutcomes(counts) ==
    IF DOMAIN counts = {} THEN {Raised, Saved} ELSE {Saved}

plot_overall_sentiment(t) ==
    IF ~HasColumn(t, "sentiment_label")
    THEN {[outcome |-> Skipped, view |-> <<>>]}
    ELSE LET counts == value_counts(t.rows, "sentiment_label")
         IN  {[outcome |-> o, view |-> counts] : o \in BarPlotOutcomes(counts)}

plot_topic_distribution(t) ==
    IF ~HasColumn(t, "topic_label")
    THEN {[outcome |-> Skipped, view |-> <<>>]}
    ELSE LET counts == value_counts(t.rows, "topic_label")
         IN  {[outcome |-> o, view |-> counts] : o \in BarPlotOutcomes(counts)}

\* pd.crosstab(topic, sentiment): rows with an absent topic or an absent
\* sentiment are in no cell.
CrossRows(rows) ==
    SelectSeq(rows, LAMBDA r : r.topic_label # NoValue /\ r.sentiment_label # NoValue)

crosstab(rows) ==
    LET g == CrossRows(rows)
        ts == Present(g, "topic_label")
        ss == Present(g, "sentiment_label")
    IN  [t \in ts |-> [s \in ss |->
            Len(SelectSeq(g, LAMBDA r : r.topic_label = t /\ r.sentiment_label = s))]]

RECURSIVE SumOver(_, _)
SumOver(f, S) ==
    IF S = {} THEN 0
    ELSE LET x == CHOOSE y \in S : TRUE IN f[x] + SumOver(f, S \ {x})

RowSum(ct, t) == SumOver(ct[t], DOMAIN ct[t])
GrandSum(ct) == SumOver([t \in DOMAIN ct |-> RowSum(ct, t)], DOMAIN ct)

crosstab_pct_of_total(ct) ==
    [t \in DOMAIN ct |-> [s \in DOMAIN ct[t] |->
        [num |-> ct[t][s] * 100, den |-> GrandSum(ct)]]]

\* crosstab.div(crosstab.sum(axis=1), axis=0) * 100
crosstab_pct(ct) ==
    [t \in DOMAIN ct |-> [s \in DOMAIN ct[t] |->
        [num |-> ct[t][s] * 100, den |-> RowSum(ct, t)]]]

plot_sentiment_by_topic(t) ==
    IF ~HasColumn(t, "topic_label") \/ ~HasColumn(t, "sentiment_label")
    THEN {[outcome |-> Skipped, view |-> <<>>]}
    ELSE {[outcome |-> Saved, view |-> crosstab_pct(crosstab(t.rows))]}

plot_comments_per_day(t) ==
    IF ~HasColumn(t, "date") \/ isna_all(t.rows, "date")
    THEN {[outcome |-> Skipped, view |-> <<>>]}
    ELSE {[outcome |-> Saved, view |-> value_counts(t.rows, "date")]}

sort_index_descending(st) ==
    [st EXCEPT !.index =
        [i \in DOMAIN st.index |-> st.index[Len(st.index) + 1 - i]]]

sort_index(st) ==
    [st EXCEPT !.index = SortedUnique(DateOrder, Range(st.index))]

plot_sentiment_over_time(t) ==
    IF \/ ~HasColumn(t, "date")
       \/ isna_all(t.rows, "date")
       \/ ~HasColumn(t, "sentiment_label")
    THEN {[outcome |-> Skipped, view |-> <<>>]}
    ELSE LET counts == sort_index(sent_time_of(t.rows))
         IN  IF counts.index = <<>>
             THEN {[outcome |-> Skipped, view |-> counts]}
             ELSE {[outcome |-> Saved, view |-> counts]}

\* ================================================================= state
VARIABLES
    file,    \* the source CSV on disk
    cache,   \* st.cache_data entry of load_data(): <<>> or <<table>>
    reads,   \* number of times pd.read_csv has run in this session
    df,      \* the table the last script run, or main(), worked on
    out,     \* what the last script run produced
    pc,      \* where main() of the batch renderer is
    charts   \* per chart of the batch renderer: its outcome and its data

vars == <<file, cache, reads, df, out, pc, charts>>
dashVars == <<cache, reads, out>>
batchVars == <<pc, charts>>

NotRun == [status |-> "not run"]
EmptyTable == [columns |-> <<>>, rows |-> <<>>]

DashColSets == {OptionalColumns, OptionalColumns \ {"published_at"}}
DashFiles ==
    FilesOver(DashColSets, FilterRows, MaxRows)
        \cup FilesOver(DashColSets, MetricRows, MaxRows)

\* A cache that compared the file with what it holds would read again after a
\* change of the file.
CachedLoad_ContentKeyed ==
    IF cache = <<>> \/ cache[1] # load_data(file)
    THEN /\ reads < MaxReads
         /\ reads' = reads + 1
         /\ cache' = <<load_data(file)>>
    ELSE UNCHANGED <<reads, cache>>

\* @st.cache_data on load_data(): the entry is keyed by the function and its
\* arguments, and load_data takes none, so there is one entry for the whole
\* session, filled by the first call; the path is a literal inside the body
\* and the file's content is no part of the key.
CachedLoad ==
    IF cache = <<>>
    THEN /\ reads < MaxReads
         /\ reads' = reads + 1
         /\ cache' = <<load_data(file)>>
    ELSE UNCHANGED <<reads, cache>>

NoCharts == [c \in Range(ChartOrder) |-> [outcome |-> Pending, view |-> <<>>]]

Init ==
    /\ file \in DashFiles
    /\ cache = <<>>
    /\ reads = 0
    /\ df = EmptyTable
    /\ out = NotRun
    /\ pc = "idle"
    /\ charts = NoCharts

\* The first execution of the script: every widget returns its default.
FirstRun ==
    /\ out = NotRun
    /\ CachedLoad
    /\ df' = cache'[1]
    /\ \E mm \in MinMaxOutcomes(df') :
          out' = Script(df', "All", "All", DefaultDateInput(df'), mm)
    /\ UNCHANGED <<file, batchVars>>

\* The table and the pandas build are those of the first run, so min() and
\* max() end as they did then.
SameMinMax == IF out.status = "TypeError" THEN {"TypeError"} ELSE {"value"}

\* A user interaction changes one widget and re-executes the whole script;
\* the other widgets return the values they hold.
ChangeTopic ==
    /\ out # NotRun
    /\ CachedLoad
    /\ df' = cache'[1]
    /\ \E ct \in Range(topic_options(df')), mm \in SameMinMax :
          out' = Script(df', ct, out.chosen_sentiment, out.date_input, mm)
    /\ UNCHANGED <<file, batchVars>>

ChangeSentiment ==
    /\ out # NotRun
    /\ CachedLoad
    /\ df' = cache'[1]
    /\ \E cs \in Range(sentiment_options(df')), mm \in SameMinMax :
          out' = Script(df', out.chosen_topic, cs, out.date_input, mm)
    /\ UNCHANGED <<file, batchVars>>

ChangeDateRange ==
    /\ out # NotRun
    /\ CachedLoad
    /\ df' = cache'[1]
    /\ \E di \in DateInputValues(df'), mm \in SameMinMax :
          out' = Script(df', out.chosen_topic, out.chosen_sentiment, di, mm)
    /\ UNCHANGED <<file, batchVars>>

Next == FirstRun \/ ChangeTopic \/ ChangeSentiment \/ ChangeDateRange

Spec == Init /\ [][Next]_vars

\* ------------------------------------------------ generate_charts.main()
BatchFiles == FilesOver(SUBSET OptionalColumns, BatchRows, MaxRows) \cup {MissingFile}

InitBatch ==
    /\ file \in BatchFiles
    /\ cache = <<>>
    /\ reads = 0
    /\ df = EmptyTable
    /\ out = NotRun
    /\ pc = "start"
    /\ charts = NoCharts

main_load ==
    /\ pc = "start"
    /\ IF ~file.exists
       THEN pc' = "FileNotFoundError" /\ df' = df
       ELSE pc' = ChartOrder[1] /\ df' = load_data(file)
    /\ UNCHANGED <<file, dashVars, charts>>

\* One chart call of main(): the chart is skipped or saved and main() goes on
\* to the next call, or the call raises and main() ends there.
ChartStep(k, results) ==
    /\ pc = ChartOrder[k]
    /\ \E r \in results :
          /\ charts' = [charts EXCEPT ![ChartOrder[k]] = r]
          /\ pc' = IF r.outcome = Raised THEN "raised"
                   ELSE IF k = Len(ChartOrder) THEN "done"
                   ELSE ChartOrder[k + 1]
    /\ UNCHANGED <<file, df, dashVars>>

main_overall_sentiment == ChartStep(1, plot_overall_sentiment(df))
main_topic_distribution == ChartStep(2, plot_topic_distribution(df))
main_sentiment_by_topic == ChartStep(3, plot_sentiment_by_topic(df))
main_comments_per_day == ChartStep(4, plot_comments_per_day(df))
main_sentiment_over_time == ChartStep(5, plot_sentiment_over_time(df))

NextBatch ==
    \/ main_load
    \/ main_overall_sentiment
    \/ main_topic_distribution
    \/ main_sentiment_by_topic
    \/ main_comments_per_day
    \/ main_sentiment_over_time

SpecBatch == InitBatch /\ [][NextBatch]_vars

\* ------------------------------------------- a session with a changing file
CacheRows ==
    [topic_label : {"A"}, sentiment_label : {"POSITIVE", NoValue}, published_at : {1}]
CacheFiles == FilesOver({OptionalColumns}, CacheRows, MaxRows)

InitCache ==
    /\ file \in CacheFiles
    /\ cache = <<>>
    /\ reads = 0
    /\ df = EmptyTable
    /\ out = NotRun
    /\ pc = "idle"
    /\ charts = NoCharts

\* The upstream pipeline rewrites the CSV while the dashboard is up.
FileChange ==
    /\ file' \in CacheFiles \ {file}
    /\ UNCHANGED <<df, dashVars, batchVars>>

NextCache == FirstRun \/ ChangeTopic \/ ChangeSentiment \/ ChangeDateRange \/ FileChange

SpecCache == InitCache /\ [][NextCache]_vars

\* ======================================================= dashboard claims
Ok == out.status = "ok"
RangeSupplied == Ok /\ out.start_date # NaT /\ out.end_date # NaT

LabelCriteria(r) ==
    /\ out.chosen_topic = "All" \/ r.topic_label = out.chosen_topic
    /\ out.chosen_sentiment = "All" \/ r.sentiment_label = out.chosen_sentiment

DateCriterion(r) ==
    RangeSupplied => r.date # NaT /\ out.start_date <= r.date /\ r.date <= out.end_date

AllCriteria(r) == LabelCriteria(r) /\ DateCriterion(r)

AtDefaults ==
    /\ Ok
    /\ out.chosen_topic = "All"
    /\ out.chosen_sentiment = "All"
    /\ out.date_input = DefaultDateInput(df)

PosCount == Len(SelectSeq(out.filtered, LAMBDA r : r.sentiment_label = "POSITIVE"))
NegCount == Len(SelectSeq(out.filtered, LAMBDA r : r.sentiment_label = "NEGATIVE"))
LabelsPresent == Present(out.filtered, "sentiment_label")

\* The parts of C3 that do not depend on which labels are present: each
\* percentage is count / total * 100, the two never add up to more than 100,
\* and both are 0 when there is no row.
PctIdentities ==
    /\ out.total = Len(out.filtered)
    /\ out.total > 0 =>
          /\ out.pos_pct = [num |-> PosCount * 100, den |-> out.total]
          /\ out.neg_pct = [num |-> NegCount * 100, den |-> out.total]
    /\ out.total = 0 => out.pos_pct.num = 0 /\ out.neg_pct.num = 0
    /\ out.pos_pct.den > 0 /\ out.neg_pct.den = out.pos_pct.den
    /\ out.pos_pct.num + out.neg_pct.num <= 100 * out.pos_pct.den

\* What a run that leaves zero rows shows: total 0, 0.0 % twice, the two
\* placeholders, no time chart, an empty preview and a header-only CSV.
ZeroRowsRender ==
    (Ok /\ out.total = 0) =>
          /\ out.pos_pct.num = 0 /\ out.neg_pct.num = 0
          /\ out.topic_chart.kind = NoData
          /\ out.sentiment_chart.kind = NoData
          /\ out.time_chart.kind = NotRendered
          /\ out.preview.rows = <<>>
          /\ out.csv.rows = <<>> /\ out.csv.header # <<>>

\* C1: in every completed run the filtered table is exactly the rows of the
\* loaded table that satisfy all selected criteria at once (topic unless
\* "All", sentiment unless "All", date within the range when one is
\* supplied), in source order; so it is never longer than the loaded table
\* and is empty when no row satisfies all criteria.
C1_FilterIsConjunction ==
    Ok =>
        /\ out.filtered = SelectSeq(df.rows, AllCriteria)
        /\ Len(out.filtered) <= Len(df.rows)
        /\ (~ \E i \in DOMAIN df.rows : AllCriteria(df.rows[i])) => out.total = 0

\* C1 witness: a topic, a sentiment and a range are selected on a table of
\* two rows, and only the second row is left.
C1_Witness ==
    /\ Ok
    /\ out.chosen_topic # "All"
    /\ out.chosen_sentiment # "All"
    /\ RangeSupplied
    /\ Len(df.rows) = 2
    /\ Len(out.filtered) = 1
    /\ out.filtered[1] = df.rows[2]

\* C2: with a concrete range a row passes the date filter iff
\* start_date <= date <= end_date (both inclusive) and rows without a date
\* are excluded; a range is supplied exactly when some row of the loaded
\* table has a date, and without one every row passes the date filter.
C2_DateRangeInclusive ==
    Ok =>
        LET base == SelectSeq(df.rows, LabelCriteria)
            kept == {i \in DOMAIN base :
                        /\ base[i].date # NaT
                        /\ out.start_date <= base[i].date
                        /\ base[i].date <= out.end_date}
        IN  IF notna_any(df.rows, "date")
            THEN /\ RangeSupplied
                 /\ Len(out.filtered) = Cardinality(kept)
                 /\ \A i \in DOMAIN out.filtered :
                        /\ out.filtered[i].date # NaT
                        /\ out.filtered[i].date >= out.start_date
                        /\ out.filtered[i].date <= out.end_date
            ELSE /\ ~RangeSupplied
                 /\ out.filtered = base

\* C2 witness: a one-day range, a row without a date that the two label
\* filters let through, and a kept row dated on the bound itself.
C2_Witness ==
    /\ RangeSupplied
    /\ out.start_date = out.end_date
    /\ \E i \in DOMAIN df.rows : df.rows[i].date = NaT /\ LabelCriteria(df.rows[i])
    /\ \E i \in DOMAIN out.filtered : out.filtered[i].date = out.end_date

\* C3 as stated: positive_pct and negative_pct are count / total * 100, their
\* sum is at most 100, it is 100 when POSITIVE and NEGATIVE are the only
\* sentiment labels present and total > 0, and both are 0 when total = 0.
C3_SumIs100WhenOnlyPosNegPresent ==
    Ok =>
        /\ PctIdentities
        /\ (out.total > 0 /\ LabelsPresent # {}
              /\ LabelsPresent \subseteq {"POSITIVE", "NEGATIVE"})
             => out.pos_pct.num + out.neg_pct.num = 100 * out.pos_pct.den

\* C3 amended: as stated, except that the sum is 100 when total > 0 and every
\* row's sentiment_label is POSITIVE or NEGATIVE (no row has another label or
\* no label); a row without a label counts in the total and in neither
\* percentage.
C3_SumIs100WhenEveryRowPosNeg ==
    Ok =>
        /\ PctIdentities
        /\ (out.total > 0 /\ \A i \in DOMAIN out.filtered :
                out.filtered[i].sentiment_label \in {"POSITIVE", "NEGATIVE"})
             => out.pos_pct.num + out.neg_pct.num = 100 * out.pos_pct.den

\* C3 witness: two rows left, one POSITIVE and one NEGATIVE: 50 % and 50 %.
C3_Witness ==
    /\ Ok
    /\ out.total = 2
    /\ LabelsPresent = {"POSITIVE", "NEGATIVE"}
    /\ out.pos_pct = [num |-> 100, den |-> 2]
    /\ out.neg_pct = [num |-> 100, den |-> 2]

\* C6 as stated: the CSV holds exactly the filtered rows in order, under one
\* header, and exactly the columns of the preview table.
C6_CsvHasPreviewColumns ==
    Ok =>
        /\ out.csv.rows = out.filtered
        /\ out.csv.header = out.preview.columns

\* C6 amended: the CSV holds exactly the filtered rows in order, under one
\* header that lists every column of the loaded table: the columns of the
\* preview table and, besides them, the derived date column.
C6_CsvHasAllColumns ==
    Ok =>
        /\ out.csv.rows = out.filtered
        /\ out.csv.header = df.columns
        /\ Range(out.preview.columns) \subseteq Range(out.csv.header)
        /\ "date" \in Range(out.csv.header) \ Range(out.preview.columns)
        /\ out.preview.rows = out.filtered

\* C6 witness: the filters leave the second of two rows, and the CSV has that
\* row under a header one column longer than the preview's.
C6_Witness ==
    /\ Ok
    /\ Len(df.rows) = 2
    /\ out.csv.rows = <<df.rows[2]>>
    /\ Len(out.csv.header) = Len(out.preview.columns) + 1

\* C8: no execution of the script ends in an unhandled error, whatever the
\* three controls deliver; with zero rows left it shows total 0, 0.0 %, the
\* two placeholders, no time chart, an empty preview and a header-only CSV.
C8_NeverRaises ==
    /\ out.status \in {"not run", "ok"}
    /\ ZeroRowsRender

OverTime == charts["sentiment_over_time"]
ByTopic == charts["sentiment_by_topic"]
DateTotal(view, d) == SumOver(view.cells[d], DOMAIN view.cells[d])
TopicsOf(rows) == Present(rows, "topic_label")
PctRowSum(view, t) ==
    SumOver([s \in DOMAIN view[t] |-> view[t][s].num], DOMAIN view[t])
LabelledOfTopic(t) ==
    Len(SelectSeq(df.rows, LAMBDA r : r.topic_label = t /\ r.sentiment_label # NoValue))

RequiredColumns(c) ==
    CASE c = "overall_sentiment" -> {"sentiment_label"}
      [] c = "topic_distribution" -> {"topic_label"}
      [] c = "sentiment_by_topic" -> {"topic_label", "sentiment_label"}
      [] c = "comments_per_day" -> {"date"}
      [] c = "sentiment_over_time" -> {"date", "sentiment_label"}

NoDataFor(c) ==
    \E col \in RequiredColumns(c) : ~HasColumn(df, col) \/ isna_all(df.rows, col)

\* C4 as stated: for every date of the sentiment-over-time view, the counts
\* summed across the sentiment columns equal the number of rows of the input
\* table that have that date.
C4_DateTotalIsRowsOfDate ==
    OverTime.outcome = Saved =>
        \A d \in Range(OverTime.view.index) :
            DateTotal(OverTime.view, d) = Len(SelectSeq(df.rows, LAMBDA r : r.date = d))

\* C4 amended: for every date of the view, the counts summed across the
\* sentiment columns equal the number of rows that have that date and a
\* sentiment label (a row without a label is in no column); rows without a
\* date are in no bucket, every date with a labelled row has a bucket, and the
\* buckets are in ascending date order.
C4_DateTotalIsLabelledRowsOfDate ==
    OverTime.outcome = Saved =>
        LET v == OverTime.view
        IN  /\ \A d \in Range(v.index) :
                  /\ d # NaT
                  /\ DateTotal(v, d) =
                       Len(SelectSeq(df.rows,
                           LAMBDA r : r.date = d /\ r.sentiment_label # NoValue))
                  /\ DateTotal(v, d) > 0
            /\ Range(v.index) = DOMAIN v.cells
            /\ \A i \in DOMAIN df.rows :
                  (df.rows[i].date # NaT /\ df.rows[i].sentiment_label # NoValue)
                      => df.rows[i].date \in Range(v.index)
            /\ \A i, j \in DOMAIN v.index : i < j => v.index[i] < v.index[j]

\* C4 witness: two labelled rows, the later date first in the file, and a
\* saved view with both dates.
C4_Witness ==
    /\ OverTime.outcome = Saved
    /\ Len(df.rows) = 2
    /\ df.rows[1].date > df.rows[2].date
    /\ df.rows[2].date # NaT
    /\ Len(OverTime.view.index) = 2

\* C5 as stated: every topic_label with at least one row has a row in the
\* sentiment-by-topic view, whose percentages sum to 100, each entry being
\* count(topic, sentiment) / count(topic) * 100.
C5_EveryTopicSumsTo100 ==
    ByTopic.outcome = Saved =>
        \A t \in TopicsOf(df.rows) :
            /\ t \in DOMAIN ByTopic.view
            /\ \A s \in DOMAIN ByTopic.view[t] :
                  ByTopic.view[t][s].den = Len(SelectSeq(df.rows, LAMBDA r : r.topic_label = t))
            /\ PctRowSum(ByTopic.view, t) =
                  100 * Len(SelectSeq(df.rows, LAMBDA r : r.topic_label = t))

\* C5 amended: every topic_label with at least one row that carries a
\* sentiment label has a row in the view, whose percentages sum to 100, each
\* entry being count(topic, sentiment) / (rows of the topic that carry a
\* sentiment label) * 100; a topic whose rows all lack a sentiment label has
\* no row in the view.
C5_LabelledTopicSumsTo100 ==
    ByTopic.outcome = Saved =>
        /\ DOMAIN ByTopic.view = {t \in TopicsOf(df.rows) : LabelledOfTopic(t) > 0}
        /\ \A t \in DOMAIN ByTopic.view :
              /\ \A s \in DOMAIN ByTopic.view[t] :
                    /\ ByTopic.view[t][s].den = LabelledOfTopic(t)
                    /\ ByTopic.view[t][s].num =
                         100 * Len(SelectSeq(df.rows,
                             LAMBDA r : r.topic_label = t /\ r.sentiment_label = s))
              /\ PctRowSum(ByTopic.view, t) = 100 * LabelledOfTopic(t)

\* C5 witness: topic A all POSITIVE and topic B all NEGATIVE in a saved view.
C5_Witness ==
    /\ ByTopic.outcome = Saved
    /\ DOMAIN ByTopic.view = {"A", "B"}
    /\ \A t \in {"A", "B"} : DOMAIN ByTopic.view[t] = {"POSITIVE", "NEGATIVE"}
    /\ ByTopic.view["A"]["POSITIVE"] = [num |-> 100, den |-> 1]
    /\ ByTopic.view["B"]["POSITIVE"] = [num |-> 0, den |-> 1]

\* C7: with the input file present no chart aborts the run: a chart whose
\* required column is absent, or holds no value at all, is skipped with a
\* notice and the later charts are still attempted, so main() reaches its
\* end; the run raises only when the input file does not exist, and then no
\* chart is written.
C7_NoChartAbortsTheRun ==
    /\ pc # "raised"
    /\ pc = "FileNotFoundError" <=> (pc \notin {"idle", "start"} /\ ~file.exists)
    /\ pc = "FileNotFoundError" => charts = NoCharts
    /\ \A c \in Range(ChartOrder) :
          (charts[c].outcome # Pending /\ NoDataFor(c)) => charts[c].outcome = Skipped
    /\ pc = "done" => \A c \in Range(ChartOrder) : charts[c].outcome \in {Skipped, Saved}

====
